---- MODULE Spec2Model ----
(***************************************************************************)
(* Model of the data-preparation stage (data_preparation.py) of the        *)
(* nutrition-survey analysis pipeline: text standardisation, food          *)
(* frequency coding, BMI categorisation, Dietary Diversity Score and the   *)
(* export of the cleaned table.                                            *)
(*                                                                         *)
(* Representation.                                                         *)
(*  - A cell of the table is a record [t, n, s]: t = "nan" is a missing    *)
(*    value (NaN), t = "num" a finite number, t = "inf" an infinity with   *)
(*    sign n, t = "str" a text value.                                      *)
(*  - Finite numbers are fixed-point integers counting hundredths:         *)
(*    18.5 is 1850, the frequency code 3 is 300.                           *)
(*  - Text values are sequences of one-character strings, so that case     *)
(*    conversion, trimming and numeric parsing work on characters.         *)
(*  - Column names are atomic strings; a row is a function from the        *)
(*    names of the table's columns to cells; the table is a sequence of    *)
(*    rows.                                                                *)
(***************************************************************************)
EXTENDS Integers, Sequences, FiniteSets, TLC

VARIABLES
    pc,          \* position of the script: the pass that runs next
    df,          \* the table as loaded from complete_data.xlsx (never mutated)
    data,        \* the working copy the passes transform
    cleaned_csv, \* the contents of cleaned_data.csv (<<>> while not written)
    summary,     \* the Urban / Rural counts of data_preparation_summary.txt
    script_index, \* run_full_analysis: position of main's loop in scripts
    results,      \* run_full_analysis: description -> status
    executed,     \* run_full_analysis: the scripts handed to os.system, in order, with their exit codes
    banner,       \* run_full_analysis: the closing banner ("none" until printed)
    sections      \* the scripts that read the export: script -> what it computed

vars == <<pc, df, data, cleaned_csv, summary, script_index, results, executed, banner,
          sections>>

\* the state of data_preparation.py and the state of run_full_analysis.py
prep == <<pc, df, data, cleaned_csv, summary>>
runner == <<script_index, results, executed, banner>>

\* main() of run_full_analysis.py has not entered its loop
NotStarted ==
    /\ script_index = 1
    /\ results = <<>>
    /\ executed = <<>>
    /\ banner = "none"
    /\ sections = <<>>

----------------------------------------------------------------------------
(* Cells *)

NaN == [t |-> "nan", n |-> 0, s |-> <<>>]
Num(x) == [t |-> "num", n |-> x, s |-> <<>>]
Whole(k) == Num(k * 100)
Inf(sign) == [t |-> "inf", n |-> sign, s |-> <<>>]
Str(chars) == [t |-> "str", n |-> 0, s |-> chars]

\* pd.isna / pd.notna
isna(c) == c.t = "nan"
notna(c) == ~isna(c)

\* c < x and c >= x for a numeric cell c and a finite number x (hundredths);
\* any comparison with NaN is false.
Less(c, x) ==
    \/ c.t = "num" /\ c.n < x
    \/ c.t = "inf" /\ c.n < 0
AtLeast(c, x) ==
    \/ c.t = "num" /\ c.n >= x
    \/ c.t = "inf" /\ c.n > 0

----------------------------------------------------------------------------
(* Characters *)

lowers == <<"a","b","c","d","e","f","g","h","i","j","k","l","m",
            "n","o","p","q","r","s","t","u","v","w","x","y","z">>
uppers == <<"A","B","C","D","E","F","G","H","I","J","K","L","M",
            "N","O","P","Q","R","S","T","U","V","W","X","Y","Z">>
digits == <<"0","1","2","3","4","5","6","7","8","9">>

IndexIn(seq, ch) == CHOOSE i \in 1..Len(seq) : seq[i] = ch
Elems(seq) == {seq[i] : i \in 1..Len(seq)}

islower(ch) == ch \in Elems(lowers)
isupper(ch) == ch \in Elems(uppers)
isdigit(ch) == ch \in Elems(digits)
isspace(ch) == ch \in {" ", "\t", "\n"}
upper(ch) == IF islower(ch) THEN uppers[IndexIn(lowers, ch)] ELSE ch
lower(ch) == IF isupper(ch) THEN lowers[IndexIn(uppers, ch)] ELSE ch
DigitVal(ch) == IndexIn(digits, ch) - 1

----------------------------------------------------------------------------
(* pd.to_numeric(..., errors='coerce') *)

\* value of a non-empty sequence of digits
RECURSIVE DigitsVal(_)
DigitsVal(ds) ==
    IF ds = <<>> THEN 0
    ELSE 10 * DigitsVal(SubSeq(ds, 1, Len(ds) - 1)) + DigitVal(ds[Len(ds)])

AllDigits(ds) == \A i \in 1..Len(ds) : isdigit(ds[i])

\* hundredths denoted by the digits after the decimal point (at most two)
FracVal(ds) ==
    IF Len(ds) = 0 THEN 0
    ELSE IF Len(ds) = 1 THEN 10 * DigitVal(ds[1])
    ELSE 10 * DigitVal(ds[1]) + DigitVal(ds[2])

\* An unsigned decimal literal: digits, optionally a point and up to two digits.
IsDecimal(chars) ==
    \E k \in 1..Len(chars) :
        /\ AllDigits(SubSeq(chars, 1, k))
        /\ \/ k = Len(chars)
           \/ /\ chars[k + 1] = "."
              /\ Len(chars) - (k + 1) <= 2
              /\ AllDigits(SubSeq(chars, k + 2, Len(chars)))

DecimalVal(chars) ==
    LET k == CHOOSE j \in 1..Len(chars) :
                 /\ AllDigits(SubSeq(chars, 1, j))
                 /\ (j = Len(chars) \/ chars[j + 1] = ".")
    IN  100 * DigitsVal(SubSeq(chars, 1, k))
          + (IF k = Len(chars) THEN 0 ELSE FracVal(SubSeq(chars, k + 2, Len(chars))))

\* Text that is a decimal literal (with an optional minus sign) becomes that
\* number, any other text becomes NaN; numbers and NaN pass through.
to_numeric(c) ==
    IF c.t # "str" THEN c
    ELSE IF IsDecimal(c.s) THEN Num(DecimalVal(c.s))
    ELSE IF Len(c.s) > 1 /\ c.s[1] = "-" /\ IsDecimal(Tail(c.s))
         THEN Num(0 - DecimalVal(Tail(c.s)))
    ELSE NaN

----------------------------------------------------------------------------
(* Series.astype(str), .str.strip(), .str.title() *)

RECURSIVE NatStr(_)
NatStr(k) ==
    IF k < 10 THEN <<digits[k + 1]>>
    ELSE NatStr(k \div 10) \o <<digits[(k % 10) + 1]>>

\* str() of a float: at least one digit after the point, no trailing zeros.
FloatStr(x) ==
    LET a == IF x < 0 THEN 0 - x ELSE x
        f == a % 100
        frac == IF f % 10 = 0 THEN <<digits[(f \div 10) + 1]>>
                ELSE <<digits[(f \div 10) + 1], digits[(f % 10) + 1]>>
    IN  (IF x < 0 THEN <<"-">> ELSE <<>>) \o NatStr(a \div 100) \o <<".">> \o frac

astype_str(c) ==
    IF c.t = "str" THEN c.s
    ELSE IF c.t = "nan" THEN <<"n","a","n">>
    ELSE IF c.t = "inf" THEN (IF c.n < 0 THEN <<"-">> ELSE <<>>) \o <<"i","n","f">>
    ELSE FloatStr(c.n)

RECURSIVE lstrip(_)
lstrip(chars) ==
    IF chars # <<>> /\ isspace(Head(chars)) THEN lstrip(Tail(chars)) ELSE chars

RECURSIVE rstrip(_)
rstrip(chars) ==
    IF chars # <<>> /\ isspace(chars[Len(chars)])
    THEN rstrip(SubSeq(chars, 1, Len(chars) - 1))
    ELSE chars

strip(chars) == rstrip(lstrip(chars))

\* str.title(): a letter that follows a letter is lower-cased, any other
\* letter is upper-cased; characters without case are kept and end the word.
RECURSIVE TitleFrom(_, _)
TitleFrom(chars, prevCased) ==
    IF chars = <<>> THEN <<>>
    ELSE LET ch == Head(chars)
             cased == islower(ch) \/ isupper(ch)
             out == IF ~cased THEN ch
                    ELSE IF prevCased THEN lower(ch) ELSE upper(ch)
         IN  <<out>> \o TitleFrom(Tail(chars), cased)

\* str.swapcase() in the place of str.title()
RECURSIVE swapcase(_)
swapcase(chars) ==
    IF chars = <<>> THEN <<>>
    ELSE <<IF islower(Head(chars)) THEN upper(Head(chars)) ELSE lower(Head(chars))>>
             \o swapcase(Tail(chars))

title(chars) == TitleFrom(chars, FALSE)

----------------------------------------------------------------------------
(* The constants of data_preparation.py *)

text_columns == <<
    "Do you skip meals",
    "Prefer snacks over food? (Yes/No)",
    "Residence",
    "Living With",
    "Marital Status of Parents",
    "Religion",
    "Ethnic Group",
    "Which meal skipped",
    "Reason for skipping meals",
    "Source of food",
    "Reason for snack preference"
>>

frequency_mapping ==
    (<<"d","a","i","l","y">> :> Whole(6)) @@
    (<<"D","a","i","l","y">> :> Whole(6)) @@
    (<<"D","A","I","L","Y">> :> Whole(6)) @@
    (<<"4","-","6","x">> :> Whole(5)) @@
    (<<"4","-","6","X">> :> Whole(5)) @@
    (<<"2","-","3","x">> :> Whole(4)) @@
    (<<"2","-","3","X">> :> Whole(4)) @@
    (<<"1","x">> :> Whole(3)) @@
    (<<"1","X">> :> Whole(3)) @@
    (<<"o","c","c">> :> Whole(2)) @@
    (<<"O","c","c">> :> Whole(2)) @@
    (<<"O","C","C">> :> Whole(2)) @@
    (<<"o","c","c","a","s","i","o","n","a","l","l","y">> :> Whole(2)) @@
    (<<"O","c","c","a","s","i","o","n","a","l","l","y">> :> Whole(2)) @@
    (<<"0","x">> :> Whole(1)) @@
    (<<"0","X">> :> Whole(1)) @@
    (<<"n","e","v","e","r">> :> Whole(1)) @@
    (<<"N","e","v","e","r">> :> Whole(1)) @@
    (<<"N","E","V","E","R">> :> Whole(1))

food_groups == <<
    [group |-> "Dairy",
     items |-> <<"Milk ", "Yoghurt", "Ice cream", "Dairy_Other">>],
    [group |-> "Tubers",
     items |-> <<"Yam", "Cocoyam", "Water yam", "Sweet Potatoe", "Irish Potatoes (Daily/1wk/2-3x/4-6x/Occasional/Never)", "Tubers_Other">>],
    [group |-> "Legumes",
     items |-> <<"Beans", "Pigeon pea", "Bambara nut", "Soybean products", "Breadfruit (Daily/1wk/2-3x/4-6x/Occasional/Never)", "Groundnut", "African yam bean", "Legumes_Other">>],
    [group |-> "Cereals",
     items |-> <<"Rice", "Maize", "Millet", "Guinea corn", "Wheat", "Oats", "Cereals_Other">>],
    [group |-> "Meats",
     items |-> <<"Beef", "Goat meat", "Chicken", "Turkey", "Egg", "Fish", "Pork meat", "Snail", "Kpomo">>],
    [group |-> "Vegetables",
     items |-> <<"Tomatoes", "Ugu", "Scent leaf", "Water leaf", "Green", "Bitter leaf ", "Carrot", "Cabbage", "Cucumber", "Garden", "Okro", "Pumpkin", "Veg_Other">>],
    [group |-> "Fruits",
     items |-> <<"Apple", "Orange", "Grapes", "Banana", "Soursop", "Avocado", "African pear", "Forest pear", "Watermelon", "Pineapple", "Agbalumo", "Pawpaw", "Mango", "Guava", "Cashew", "Fruit_Other">>],
    [group |-> "Spices",
     items |-> <<"Garlic ", "Rosemary", "Thyme", "Turmeric", "Nutmeg", "Okpei", "Ogiri", "Spice_Other">>],
    [group |-> "Drinks",
     items |-> <<"Water", "Soft drinks", "Alcoholic beverages", "Wines", "Palm wine", "Beer", "Drink_Other">>],
    [group |-> "Snacks",
     items |-> <<"Biscuits ", "Chin-chin", "Buns", "Doughnut", "Peanut", "Plantain", "Chocolate", "Eggrolls", "Snack_Other">>]
>>

\* all_food_items: the catalog flattened in catalog order
RECURSIVE Flatten(_)
Flatten(groups) ==
    IF groups = <<>> THEN <<>> ELSE Head(groups).items \o Flatten(Tail(groups))

all_food_items == Flatten(food_groups)

coded_name(col) == col \o "_coded"

----------------------------------------------------------------------------
(* Tables *)

Rows(tbl) == 1..Len(tbl)
Columns(tbl) == DOMAIN tbl[1]

\* data[name] = column: the table with the column set (added or replaced).
\* SubSeq copies the table, so that it is a sequence of explicit rows and not
\* an expression evaluated again at every lookup.
SetColumn(tbl, name, column) ==
    SubSeq([r \in Rows(tbl) |-> (name :> column[r]) @@ tbl[r]], 1, Len(tbl))

----------------------------------------------------------------------------
(* 1.5  Standardize text variables *)

\* .astype(str).str.strip().str.title(), then .replace('Nan', np.nan)
standardize_cell(c) ==
    LET titled == title(strip(astype_str(c)))
    IN  IF titled = <<"N","a","n">> THEN NaN ELSE Str(titled)

\* a normalizing pass over every column of the table, listed or not
standardize_all_columns(tbl, i) ==
    SubSeq([r \in Rows(tbl) |-> [c \in DOMAIN tbl[r] |-> standardize_cell(tbl[r][c])]],
           1, Len(tbl))

\* The loop over text_columns[i..], skipping absent columns.
RECURSIVE standardize_text(_, _)
standardize_text(tbl, i) ==
    IF i > Len(text_columns) THEN tbl
    ELSE LET col == text_columns[i]
         IN  IF col \in Columns(tbl)
             THEN standardize_text(
                      SetColumn(tbl, col,
                                [r \in Rows(tbl) |-> standardize_cell(tbl[r][col])]),
                      i + 1)
             ELSE standardize_text(tbl, i + 1)

----------------------------------------------------------------------------
(* 2  Code food frequency variables *)

\* Series.map(frequency_mapping): a value that is no key of the mapping
\* (other text, a number, NaN) maps to NaN.
map_frequency(c) ==
    IF c.t = "str" /\ c.s \in DOMAIN frequency_mapping
    THEN frequency_mapping[c.s]
    ELSE NaN

\* code_column without the numeric fallback
code_column_no_fallback(tbl, col) ==
    [r \in Rows(tbl) |-> map_frequency(tbl[r][col])]

\* code_column that replaces the whole column by its numeric reading as soon
\* as one cell is unmapped
code_column_whole_fallback(tbl, col) ==
    LET mapped == [r \in Rows(tbl) |-> map_frequency(tbl[r][col])]
    IN  IF \E r \in Rows(tbl) : isna(mapped[r])
        THEN [r \in Rows(tbl) |-> to_numeric(tbl[r][col])]
        ELSE mapped

\* The body of the coding loop for one column: the coded column.
code_column(tbl, col) ==
    LET mapped == [r \in Rows(tbl) |-> map_frequency(tbl[r][col])]
    IN  IF \E r \in Rows(tbl) : isna(mapped[r])
        THEN [r \in Rows(tbl) |->
                 IF isna(mapped[r]) THEN to_numeric(tbl[r][col]) ELSE mapped[r]]
        ELSE mapped

\* the position of the first item of all_food_items[i..] whose column is in
\* items; 0 when there is none
NextItem(items, i) ==
    LET present == {k \in i..Len(all_food_items) : all_food_items[k] \in items}
    IN  IF present = {} THEN 0
        ELSE CHOOSE k \in present : \A j \in present : k <= j

\* a coding loop that gives the absent item Maize a coded column of missing
\* values
RECURSIVE code_frequencies_placeholder(_, _)
code_frequencies_placeholder(tbl, i) ==
    LET k == NextItem(Columns(tbl) \cup {"Maize"}, i)
    IN  IF k = 0 THEN tbl
        ELSE code_frequencies_placeholder(
                 SetColumn(tbl, coded_name(all_food_items[k]),
                           IF all_food_items[k] \in Columns(tbl)
                           THEN code_column(tbl, all_food_items[k])
                           ELSE [r \in Rows(tbl) |-> NaN]),
                 k + 1)

\* The coding loop over all_food_items[i..]: an item whose column is absent
\* is skipped, the next item whose column is present gets its coded column.
RECURSIVE code_frequencies(_, _)
code_frequencies(tbl, i) ==
    LET k == NextItem(Columns(tbl), i)
    IN  IF k = 0 THEN tbl
        ELSE code_frequencies(
                 SetColumn(tbl, coded_name(all_food_items[k]),
                           code_column(tbl, all_food_items[k])),
                 k + 1)

----------------------------------------------------------------------------
(* 3  BMI categories *)

Unknown == Str(<<"U","n","k","n","o","w","n">>)
Underweight == Str(<<"U","n","d","e","r","w","e","i","g","h","t">>)
Normal == Str(<<"N","o","r","m","a","l">>)
Overweight == Str(<<"O","v","e","r","w","e","i","g","h","t">>)
Obese == Str(<<"O","b","e","s","e">>)

\* categorize_bmi with the thresholds inclusive on the upper side (<=)
categorize_bmi_inclusive(bmi) ==
    IF isna(bmi) THEN Unknown
    ELSE IF Less(bmi, 1851) THEN Underweight
    ELSE IF Less(bmi, 2501) THEN Normal
    ELSE IF Less(bmi, 3001) THEN Overweight
    ELSE Obese

\* categorize_bmi without the pd.isna test: every comparison with NaN is
\* false, so a missing BMI falls through to the last branch
categorize_bmi_no_isna(bmi) ==
    IF Less(bmi, 1850) THEN Underweight
    ELSE IF Less(bmi, 2500) THEN Normal
    ELSE IF Less(bmi, 3000) THEN Overweight
    ELSE Obese

categorize_bmi(bmi) ==
    IF isna(bmi) THEN Unknown
    ELSE IF Less(bmi, 1850) THEN Underweight
    ELSE IF Less(bmi, 2500) THEN Normal
    ELSE IF Less(bmi, 3000) THEN Overweight
    ELSE Obese

\* bmi_categories that gives a record without a usable BMI the category of
\* the record before it (a forward fill)
bmi_categories_ffill(tbl) ==
    LET withFinal ==
            SetColumn(tbl, "BMI_final", [r \in Rows(tbl) |-> to_numeric(tbl[r]["BMI"])])
        own == [r \in Rows(tbl) |-> categorize_bmi(withFinal[r]["BMI_final"])]
    IN  SetColumn(withFinal, "BMI_category",
                  [r \in Rows(tbl) |->
                      IF own[r] = Unknown /\ r > 1 THEN own[r - 1] ELSE own[r]])

bmi_categories(tbl) ==
    LET withFinal ==
            SetColumn(tbl, "BMI_final", [r \in Rows(tbl) |-> to_numeric(tbl[r]["BMI"])])
    IN  SetColumn(withFinal, "BMI_category",
                  [r \in Rows(tbl) |-> categorize_bmi(withFinal[r]["BMI_final"])])

----------------------------------------------------------------------------
(* 4  Dietary Diversity Score *)

\* group_consumed with the threshold at 2 ("occasionally" counts as consumed)
RECURSIVE group_consumed_occasional(_, _, _)
group_consumed_occasional(row, items, i) ==
    IF i > Len(items) THEN FALSE
    ELSE LET coded_col == coded_name(items[i])
         IN  IF coded_col \in DOMAIN row
                 /\ notna(row[coded_col]) /\ AtLeast(row[coded_col], 200)
             THEN TRUE
             ELSE group_consumed_occasional(row, items, i + 1)

\* group_consumed written as "not below 3": a missing value counts as consumed
RECURSIVE group_consumed_missing(_, _, _)
group_consumed_missing(row, items, i) ==
    IF i > Len(items) THEN FALSE
    ELSE LET coded_col == coded_name(items[i])
         IN  IF coded_col \in DOMAIN row /\ ~Less(row[coded_col], 300)
             THEN TRUE
             ELSE group_consumed_missing(row, items, i + 1)

\* group_consumed that decides on the first member that has a coded column
\* (the loop is left after one look instead of after the first hit)
group_consumed_first_only(row, items, i) ==
    \E k \in i..Len(items) :
        /\ coded_name(items[k]) \in DOMAIN row
        /\ \A j \in i..(k - 1) : coded_name(items[j]) \notin DOMAIN row
        /\ notna(row[coded_name(items[k])])
        /\ AtLeast(row[coded_name(items[k])], 300)

\* group_consumed that asks for a coded frequency of exactly 3
RECURSIVE group_consumed_exactly(_, _, _)
group_consumed_exactly(row, items, i) ==
    IF i > Len(items) THEN FALSE
    ELSE LET coded_col == coded_name(items[i])
         IN  IF coded_col \in DOMAIN row
                 /\ notna(row[coded_col]) /\ row[coded_col] = Whole(3)
             THEN TRUE
             ELSE group_consumed_exactly(row, items, i + 1)

\* group_consumed that reads the raw item column instead of the coded one
RECURSIVE group_consumed_raw(_, _, _)
group_consumed_raw(row, items, i) ==
    IF i > Len(items) THEN FALSE
    ELSE IF items[i] \in DOMAIN row
            /\ notna(row[items[i]]) /\ AtLeast(row[items[i]], 300)
         THEN TRUE
         ELSE group_consumed_raw(row, items, i + 1)

\* The inner loop of calculate_dds over items[i..]: TRUE at the first item
\* whose coded column exists and holds a value that is present and >= 3.
RECURSIVE group_consumed(_, _, _)
group_consumed(row, items, i) ==
    IF i > Len(items) THEN FALSE
    ELSE LET coded_col == coded_name(items[i])
         IN  IF coded_col \in DOMAIN row
                 /\ notna(row[coded_col]) /\ AtLeast(row[coded_col], 300)
             THEN TRUE
             ELSE group_consumed(row, items, i + 1)

\* dds_loop without the per-group flag: every qualifying item adds 1
RECURSIVE dds_loop_per_item(_, _, _, _)
dds_loop_per_item(row, groups, g, score) ==
    IF g > Len(groups) THEN score
    ELSE dds_loop_per_item(row, groups, g + 1,
             score + Cardinality({i \in 1..Len(groups[g].items) :
                         LET coded_col == coded_name(groups[g].items[i])
                         IN  /\ coded_col \in DOMAIN row
                             /\ notna(row[coded_col])
                             /\ AtLeast(row[coded_col], 300)}))

\* The outer loop of calculate_dds over groups[g..], starting from score.
RECURSIVE dds_loop(_, _, _, _)
dds_loop(row, groups, g, score) ==
    IF g > Len(groups) THEN score
    ELSE dds_loop(row, groups, g + 1,
                  IF group_consumed(row, groups[g].items, 1) THEN score + 1 ELSE score)

\* calculate_dds that leaves out the last group of the catalog
calculate_dds_skip_last(row, groups) ==
    dds_loop(row, SubSeq(groups, 1, Len(groups) - 1), 1, 0)

calculate_dds(row, groups) == dds_loop(row, groups, 1, 0)

\* a DDS pass that also fills the missing cells of the table with 0
dds_column_fillna(tbl) ==
    LET filled == SubSeq([r \in Rows(tbl) |->
                              [c \in DOMAIN tbl[r] |->
                                  IF isna(tbl[r][c]) THEN Whole(0) ELSE tbl[r][c]]],
                         1, Len(tbl))
    IN  SetColumn(filled, "DDS",
                  [r \in Rows(tbl) |-> Whole(calculate_dds(tbl[r], food_groups))])

dds_column(tbl) ==
    SetColumn(tbl, "DDS", [r \in Rows(tbl) |-> Whole(calculate_dds(tbl[r], food_groups))])

----------------------------------------------------------------------------
(* 5  Export and summary *)

CountWhere(tbl, col, value) == Cardinality({r \in Rows(tbl) : tbl[r][col] = value})

make_summary(tbl) ==
    [Total |-> Len(tbl),
     Urban |-> CountWhere(tbl, "Residence", Str(<<"u","r","b","a","n">>)),
     Rural |-> CountWhere(tbl, "Residence", Str(<<"r","u","r","a","l">>))]

NoSummary == [Total |-> 0, Urban |-> 0, Rural |-> 0]

----------------------------------------------------------------------------
(* The script as a state machine: one action per pass *)

StandardizeText ==
    /\ pc = "standardize"
    /\ data' = standardize_text(data, 1)
    /\ pc' = "code"
    /\ UNCHANGED <<df, cleaned_csv, summary>>
    /\ UNCHANGED <<runner, sections>>

CodeFrequencies ==
    /\ pc = "code"
    /\ data' = code_frequencies(data, 1)
    /\ pc' = "bmi"
    /\ UNCHANGED <<df, cleaned_csv, summary>>
    /\ UNCHANGED <<runner, sections>>

CategorizeBMI ==
    /\ pc = "bmi"
    /\ "BMI" \in Columns(data)
    /\ data' = bmi_categories(data)
    /\ pc' = "dds"
    /\ UNCHANGED <<df, cleaned_csv, summary>>
    /\ UNCHANGED <<runner, sections>>

\* data['BMI'] raises KeyError when the column is absent
AbortNoBMI ==
    /\ pc = "bmi"
    /\ "BMI" \notin Columns(data)
    /\ pc' = "aborted"
    /\ UNCHANGED <<df, data, cleaned_csv, summary>>
    /\ UNCHANGED <<runner, sections>>

ScoreDDS ==
    /\ pc = "dds"
    /\ data' = dds_column(data)
    /\ pc' = "export"
    /\ UNCHANGED <<df, cleaned_csv, summary>>
    /\ UNCHANGED <<runner, sections>>

\* to_csv without index=False: the row index is written as a first column
Export_with_index ==
    /\ pc = "export"
    /\ cleaned_csv' = SetColumn(data, "Unnamed: 0", [r \in Rows(data) |-> Whole(r - 1)])
    /\ pc' = "summary"
    /\ UNCHANGED <<df, data, summary>>
    /\ UNCHANGED <<runner, sections>>

\* an export that may also run in the place of the DDS pass
Export_early ==
    /\ pc \in {"dds", "export"}
    /\ cleaned_csv' = data
    /\ pc' = "summary"
    /\ UNCHANGED <<df, data, summary>>
    /\ UNCHANGED <<runner, sections>>

Export ==
    /\ pc = "export"
    /\ cleaned_csv' = data
    /\ pc' = "summary"
    /\ UNCHANGED <<df, data, summary>>
    /\ UNCHANGED <<runner, sections>>

Summarize ==
    /\ pc = "summary"
    /\ "Residence" \in Columns(data)
    /\ summary' = make_summary(data)
    /\ pc' = "done"
    /\ UNCHANGED <<df, data, cleaned_csv>>
    /\ UNCHANGED <<runner, sections>>

\* data['Residence'] raises KeyError when the column is absent
AbortNoResidence ==
    /\ pc = "summary"
    /\ "Residence" \notin Columns(data)
    /\ pc' = "aborted"
    /\ UNCHANGED <<df, data, cleaned_csv, summary>>
    /\ UNCHANGED <<runner, sections>>

Next ==
    \/ StandardizeText
    \/ CodeFrequencies
    \/ CategorizeBMI
    \/ AbortNoBMI
    \/ ScoreDDS
    \/ Export
    \/ Summarize
    \/ AbortNoResidence

----------------------------------------------------------------------------
(* Inputs of the full run: a one-row table *)

all_upper(chars) == [i \in 1..Len(chars) |-> upper(chars[i])]
all_lower(chars) == [i \in 1..Len(chars) |-> lower(chars[i])]
\* first letter lower-case, the rest upper-case ("dAILY")
inverted(chars) ==
    [i \in 1..Len(chars) |-> IF i = 1 THEN lower(chars[i]) ELSE upper(chars[i])]

\* The response options the questionnaire prints, as the column headers of
\* the Irish Potatoes and Breadfruit items quote them:
\* (Daily/1wk/2-3x/4-6x/Occasional/Never)
InstrumentLabels ==
    {<<"D","a","i","l","y">>, <<"1","w","k">>, <<"2","-","3","x">>, <<"4","-","6","x">>, <<"O","c","c","a","s","i","o","n","a","l">>, <<"N","e","v","e","r">>}

\* every key of the mapping in four casings
LabelSpellings ==
    UNION {{k, all_lower(k), all_upper(k), title(k), inverted(k)} :
              k \in DOMAIN frequency_mapping}

FrequencyTexts ==
    LabelSpellings \cup InstrumentLabels
        \cup {<<"3">>, <<"7">>, <<"2",".","5">>, <<"a","b","c">>, <<>>}

FrequencyCells ==
    {Str(x) : x \in FrequencyTexts}
        \cup {NaN, Whole(0), Whole(3), Whole(6), Whole(7), Num(250)}

BMICells ==
    {NaN, Inf(1), Inf(0 - 1),
     Num(0 - 100), Num(1790), Num(1849), Num(1850), Num(2499), Num(2500),
     Num(2999), Num(3000), Num(4500),
     Str(<<"1","7",".","9">>), Str(<<"1","8",".","5">>), Str(<<"3","0">>), Str(<<"-","5">>), Str(<<"a","b","c">>), Str(<<"N","/","A">>), Str(<<>>)}

ResidenceCells ==
    {NaN, Str(<<"u","r","b","a","n">>), Str(<<"U","r","b","a","n">>), Str(<<"R","U","R","A","L">>), Str(<<" ","r","u","r","a","l"," ">>),
     Str(<<"N","A","N">>), Str(<<"p","o","r","t","-","h","a","r","c","o","u","r","t"," ","2","n","d">>), Whole(2)}

\* a function with the given column iff the cell is not Absent
Absent == [t |-> "absent", n |-> 0, s |-> <<>>]
Col(name, cell) == IF cell = Absent THEN <<>> ELSE (name :> cell)

Init ==
    /\ pc = "standardize"
    /\ \E bmi \in BMICells \cup {Absent},
          res \in ResidenceCells \cup {Absent},
          rice \in FrequencyCells \cup {Absent} :
           df = << ("Age Group " :> Str(<<"1","3","-","1","5">>)) @@ Col("BMI", bmi)
                      @@ Col("Residence", res) @@ Col("Rice", rice) >>
    /\ data = df
    /\ cleaned_csv = <<>>
    /\ summary = NoSummary
    /\ NotStarted

Spec == Init /\ [][Next]_vars

----------------------------------------------------------------------------
(* Inputs of the DDS scorer: one record, taken through the passes that      *)
(* precede the scoring pass                                                *)

\* number of groups (the first ones of the catalog) of which the second
\* member is answered besides the first
ExtraItems == 1

FirstItems == {food_groups[g].items[1] : g \in 1..Len(food_groups)}
SecondItems == {food_groups[g].items[2] : g \in 1..ExtraItems}

\* the columns of a record: the answers that are not Absent
Present(answers) ==
    [c \in {d \in DOMAIN answers : answers[d] # Absent} |-> answers[c]]

\* Every group's first member is answered "1x" or the record's low answer
\* (no column, no answer, or "occ"); the second members are unanswered,
\* 2.5 or "Daily".
InitDDS ==
    /\ pc = "dds"
    /\ \E low \in {Absent, NaN, Str(<<"o","c","c">>)} :
       \E firsts \in [FirstItems -> {low, Str(<<"1","x">>)}],
          seconds \in [SecondItems -> {NaN, Num(250), Str(<<"D","a","i","l","y">>)}] :
           df = << ("BMI" :> Num(2210)) @@ Present(firsts) @@ seconds >>
    /\ \E coded \in {code_frequencies(standardize_text(df, 1), 1)} :
           data = bmi_categories(coded)
    /\ cleaned_csv = <<>>
    /\ summary = NoSummary
    /\ NotStarted

NextDDS == ScoreDDS

SpecDDS == InitDDS /\ [][NextDDS]_vars

----------------------------------------------------------------------------
(* Properties of the DDS scorer *)

Scored == "DDS" \in Columns(data)

\* the item's coded frequency is present and at least 3
Qualifies(row, item) ==
    /\ coded_name(item) \in DOMAIN row
    /\ row[coded_name(item)].t \in {"num", "inf"}
    /\ AtLeast(row[coded_name(item)], 300)

\* the item has no coded frequency: no coded column, or a missing value in it
Missing(row, item) ==
    coded_name(item) \notin DOMAIN row \/ row[coded_name(item)].t = "nan"

GroupIndexes == 1..Len(food_groups)
ItemIndexes(g) == 1..Len(food_groups[g].items)
QualifyingItems(row, g) == {i \in ItemIndexes(g) : Qualifies(row, food_groups[g].items[i])}
ConsumedGroups(row) == {g \in GroupIndexes : QualifyingItems(row, g) # {}}
AllMissing(row, g) == \A i \in ItemIndexes(g) : Missing(row, food_groups[g].items[i])

RemoveAt(seq, k) == SubSeq(seq, 1, k - 1) \o SubSeq(seq, k + 1, Len(seq))

\* C1: the DDS of every record is exactly the number of food groups with at
\* least one member whose coded frequency is present and >= 3; a group
\* counts once however many of its members reach the threshold.
C1_DDSCountsGroups ==
    Scored => \A r \in Rows(data) :
                  data[r]["DDS"] = Whole(Cardinality(ConsumedGroups(data[r])))

\* a scored record with two qualifying members in one group, a consumed
\* group besides it and a group that is not consumed
C1_Witness ==
    /\ Scored
    /\ \E r \in Rows(data) :
           /\ \E g \in GroupIndexes : Cardinality(QualifyingItems(data[r], g)) >= 2
           /\ Cardinality(ConsumedGroups(data[r])) \in 2..(Len(food_groups) - 1)
           /\ data[r]["DDS"] = Whole(Cardinality(ConsumedGroups(data[r])))

\* C8: the DDS of every record is an integer between 0 and the number of
\* food groups of the catalog, which is 10, and it is never missing.
C8_DDSRange ==
    /\ Len(food_groups) = 10
    /\ Scored => \A r \in Rows(data) :
                     /\ data[r]["DDS"].t = "num"
                     /\ data[r]["DDS"].n % 100 = 0
                     /\ data[r]["DDS"].n >= 0
                     /\ data[r]["DDS"].n <= 100 * Len(food_groups)

\* a record that scores the maximum while one group has two qualifying members
C8_Witness ==
    /\ Scored
    /\ \E r \in Rows(data) :
           /\ data[r]["DDS"] = Whole(10)
           /\ \E g \in GroupIndexes : Cardinality(QualifyingItems(data[r], g)) >= 2

\* C9: a food group all of whose members are missing (a missing coded value
\* or no coded column) adds nothing to the DDS: the score is the score of the
\* catalog without that group; a record with every item missing scores 0.
C9_MissingGroupAddsNothing ==
    Scored => \A r \in Rows(data) :
                  /\ \A g \in GroupIndexes :
                         AllMissing(data[r], g) =>
                             data[r]["DDS"] =
                                 Whole(calculate_dds(data[r], RemoveAt(food_groups, g)))
                  /\ (\A g \in GroupIndexes : AllMissing(data[r], g)) =>
                         data[r]["DDS"] = Whole(0)
                  /\ data[r]["DDS"].n <=
                         100 * Cardinality({g \in GroupIndexes : ~AllMissing(data[r], g)})

\* a scored record with a group whose first member has a missing coded value
\* and whose other members have no coded column, and with consumed groups
C9_Witness ==
    /\ Scored
    /\ \E r \in Rows(data) :
           /\ \E g \in GroupIndexes :
                  /\ AllMissing(data[r], g)
                  /\ coded_name(food_groups[g].items[1]) \in DOMAIN data[r]
                  /\ coded_name(food_groups[g].items[2]) \notin DOMAIN data[r]
           /\ data[r]["DDS"].n >= 100

\* every coded frequency of the record that is present is below 3
AllBelowThree(row) ==
    \A g \in GroupIndexes : \A i \in ItemIndexes(g) :
        LET item == food_groups[g].items[i]
        IN  Missing(row, item) \/ Less(row[coded_name(item)], 300)

\* C10: a record whose coded frequencies are all below 3 scores 0, and a
\* record with a member coded >= 3 in every group scores the number of groups.
C10_DDSBoundary ==
    Scored => \A r \in Rows(data) :
                  /\ AllBelowThree(data[r]) => data[r]["DDS"] = Whole(0)
                  /\ (\A g \in GroupIndexes : QualifyingItems(data[r], g) # {}) =>
                         data[r]["DDS"] = Whole(Len(food_groups))

\* a record that answered every group, each answer coded 2 or 2.5, scores 0
C10_Witness ==
    /\ Scored
    /\ \E r \in Rows(data) :
           /\ AllBelowThree(data[r])
           /\ \A g \in GroupIndexes : ~AllMissing(data[r], g)
           /\ data[r]["DDS"] = Whole(0)

----------------------------------------------------------------------------
(* Properties of the BMI categorizer *)

Categorized == "BMI_category" \in Columns(data)

\* b < x for a numeric BMI b: minus infinity is below every threshold
Below(b, x) == (b.t = "inf" /\ b.n < 0) \/ (b.t = "num" /\ b.n < x)

\* C2: every numeric BMI_final (the boundaries 18.5, 25, 30 and both
\* infinities included) gets exactly one category: Underweight below 18.5,
\* Normal from 18.5 to below 25, Overweight from 25 to below 30, Obese from 30.
C2_BMIPartition ==
    Categorized => \A r \in Rows(data) :
        LET b == data[r]["BMI_final"]
            c == data[r]["BMI_category"]
        IN  b.t \in {"num", "inf"} =>
                /\ c \in {Underweight, Normal, Overweight, Obese}
                /\ (c = Underweight) <=> Below(b, 1850)
                /\ (c = Normal) <=> (~Below(b, 1850) /\ Below(b, 2500))
                /\ (c = Overweight) <=> (~Below(b, 2500) /\ Below(b, 3000))
                /\ (c = Obese) <=> ~Below(b, 3000)

\* a record with BMI exactly 18.5, categorized Normal
C2_Witness ==
    /\ Categorized
    /\ \E r \in Rows(data) :
           /\ data[r]["BMI_final"] = Num(1850)
           /\ data[r]["BMI_category"] = Normal

\* text without a single digit: no number can be read from it
NoDigitText(c) == c.t = "str" /\ \A i \in 1..Len(c.s) : ~isdigit(c.s[i])

\* C3: a BMI cell that is missing or holds non-numeric text gets a missing
\* BMI_final and the category Unknown, and the run does not stop there; a
\* record is Unknown only when its BMI_final is missing.
C3_UnknownIffMissing ==
    /\ Categorized => \A r \in Rows(data) :
           /\ (df[r]["BMI"].t = "nan" \/ NoDigitText(df[r]["BMI"])) =>
                  /\ data[r]["BMI_final"] = NaN
                  /\ data[r]["BMI_category"] = Unknown
           /\ data[r]["BMI_category"] = Unknown => data[r]["BMI_final"] = NaN
    /\ (pc = "aborted" /\ "BMI" \in Columns(df)) => cleaned_csv # <<>>

\* a record whose BMI cell holds the text "abc", categorized Unknown
C3_Witness ==
    /\ Categorized
    /\ \E r \in Rows(data) :
           /\ df[r]["BMI"] = Str(<<"a","b","c">>)
           /\ data[r]["BMI_category"] = Unknown

----------------------------------------------------------------------------
(* Properties of the frequency coder *)

\* the coding pass is over
CodingDone == pc \notin {"standardize", "code"}

\* the food-item columns of the input
FoodColumns == {all_food_items[i] : i \in 1..Len(all_food_items)} \cap Columns(df)

\* The fixed table, by label in lower case.
FixedTable ==
    (<<"n","e","v","e","r">> :> 1) @@ (<<"0","x">> :> 1) @@
    (<<"o","c","c","a","s","i","o","n","a","l">> :> 2) @@ (<<"o","c","c">> :> 2) @@ (<<"o","c","c","a","s","i","o","n","a","l","l","y">> :> 2) @@
    (<<"1","x">> :> 3) @@ (<<"1","w","k">> :> 3) @@
    (<<"2","-","3","x">> :> 4) @@ (<<"4","-","6","x">> :> 5) @@ (<<"d","a","i","l","y">> :> 6)

\* the spellings of the labels the questionnaire and the mapping use
SurveySpellings == InstrumentLabels \cup DOMAIN frequency_mapping

\* C4: every response spelled as the survey instrument spells its labels is
\* coded by the fixed table (Never/0x 1, Occasional/occ 2, once a week 3,
\* 2-3x 4, 4-6x 5, Daily 6).
C4_FixedTable ==
    CodingDone => \A r \in Rows(data) : \A col \in FoodColumns :
        (df[r][col].t = "str" /\ df[r][col].s \in SurveySpellings) =>
            data[r][coded_name(col)] = Whole(FixedTable[all_lower(df[r][col].s)])

\* the labels the mapping recognizes
RecognizedLabels ==
    {<<"d","a","i","l","y">>, <<"4","-","6","x">>, <<"2","-","3","x">>, <<"1","x">>, <<"o","c","c">>, <<"o","c","c","a","s","i","o","n","a","l","l","y">>, <<"0","x">>, <<"n","e","v","e","r">>}

\* C5: every upper-, lower- or mixed-case variant of a recognized label is
\* coded to the same integer as the label itself.
C5_CaseInsensitive ==
    CodingDone => \A r \in Rows(data) : \A col \in FoodColumns :
        (df[r][col].t = "str" /\ all_lower(df[r][col].s) \in RecognizedLabels) =>
            data[r][coded_name(col)] = frequency_mapping[all_lower(df[r][col].s)]

\* C6: after the coding pass every coded cell is missing or an integer in
\* 1..6, whatever the raw cell held.
C6_CodedInRange ==
    CodingDone => \A r \in Rows(data) : \A col \in FoodColumns :
        data[r][coded_name(col)] \in {NaN} \cup {Whole(k) : k \in 1..6}

\* the numeric strings among the responses, with the numbers they denote
NumericTexts ==
    (<<"3">> :> Whole(3)) @@ (<<"7">> :> Whole(7)) @@ (<<"2",".","5">> :> Num(250))

\* C7: a raw value that is no key of the textual mapping is read as a
\* number: a number or a numeric string passes through as that number; a
\* value that is neither is coded missing; every food column present gets
\* its coded column, so the pass never fails and invents no default.
C7_NumericFallback ==
    CodingDone => \A r \in Rows(data) : \A col \in FoodColumns :
        LET raw == df[r][col]
            coded == data[r][coded_name(col)]
        IN  /\ raw.t \in {"num", "inf"} => coded = raw
            /\ raw.t = "nan" => coded = NaN
            /\ (raw.t = "str" /\ raw.s \in DOMAIN NumericTexts) =>
                   coded = NumericTexts[raw.s]
            /\ (raw.t = "str" /\ raw.s \notin DOMAIN NumericTexts
                              /\ raw.s \notin DOMAIN frequency_mapping) =>
                   coded = NaN

\* a response "3" that is coded 3 through the numeric fallback
C7_Witness ==
    /\ CodingDone
    /\ \E r \in Rows(data) :
           /\ "Rice" \in Columns(df)
           /\ df[r]["Rice"] = Str(<<"3">>)
           /\ data[r]["Rice_coded"] = Whole(3)

----------------------------------------------------------------------------
(* Order independence of the DDS scorer *)

Reverse(seq) == [i \in 1..Len(seq) |-> seq[Len(seq) + 1 - i]]
Rotate(seq) == Tail(seq) \o <<Head(seq)>>
SwapAt(seq, k) ==
    [i \in 1..Len(seq) |-> IF i = k THEN seq[k + 1] ELSE IF i = k + 1 THEN seq[k] ELSE seq[i]]

\* the catalog with the members of every group rearranged by P
WithItems(groups, P(_)) ==
    [g \in 1..Len(groups) |-> [group |-> groups[g].group, items |-> P(groups[g].items)]]

\* Rearrangements of the catalog: the groups reversed, rotated, or two
\* neighbours swapped, and the members of every group reversed or rotated.
CatalogOrders ==
    {Reverse(food_groups), Rotate(food_groups),
     WithItems(food_groups, Reverse), WithItems(food_groups, Rotate),
     Reverse(WithItems(food_groups, Reverse))}
        \cup {SwapAt(food_groups, k) : k \in 1..(Len(food_groups) - 1)}

\* C11: the DDS of a record does not depend on the order of the food groups
\* in the catalog nor on the order of the members inside a group.
C11_OrderIndependent ==
    Scored => \A r \in Rows(data) : \A catalog \in CatalogOrders :
                  data[r]["DDS"] = Whole(calculate_dds(data[r], catalog))

\* a scored record in whose first group the first member does not qualify
\* and the second does, so that the loop breaks at another place when the
\* members are reversed
C11_Witness ==
    /\ Scored
    /\ \E r \in Rows(data) :
           LET members == food_groups[1].items
           IN  /\ coded_name(members[1]) \in DOMAIN data[r]
               /\ ~Qualifies(data[r], members[1])
               /\ Qualifies(data[r], members[2])
               /\ data[r]["DDS"].n \in 200..900

----------------------------------------------------------------------------
(* Inputs of the full run on a table of several records *)

MaxRows == 2

TableBMI == {Num(1790), Str(<<"a","b","c">>)}
TableResidence == {Str(<<"u","r","b","a","n">>), Str(<<" ","R","U","R","A","L"," ">>)}
TableRice == {Str(<<"1","x">>), Whole(3), Str(<<"o","f","t","e","n">>)}
TableMaize == {NaN, Str(<<"D","a","i","l","y">>)}

Cells(present, cells) == IF present THEN cells ELSE {Absent}

\* the records of a table with the given columns present
TableRecords(hasBMI, hasResidence, hasRice, hasMaize) ==
    {("Age Group " :> Str(<<"1","3","-","1","5">>)) @@ Col("BMI", bmi) @@ Col("Residence", res)
         @@ Col("Rice", rice) @@ Col("Maize", maize) :
        bmi \in Cells(hasBMI, TableBMI), res \in Cells(hasResidence, TableResidence),
        rice \in Cells(hasRice, TableRice), maize \in Cells(hasMaize, TableMaize)}

InitTable ==
    /\ pc = "standardize"
    /\ \E hasBMI \in BOOLEAN, hasResidence \in BOOLEAN,
          hasRice \in BOOLEAN, hasMaize \in BOOLEAN :
       \E n \in 1..MaxRows :
           df \in [1..n -> TableRecords(hasBMI, hasResidence, hasRice, hasMaize)]
    /\ data = df
    /\ cleaned_csv = <<>>
    /\ summary = NoSummary
    /\ NotStarted

SpecTable == InitTable /\ [][Next]_vars

----------------------------------------------------------------------------
(* The DDS depends on the coded frequencies only *)

CodedColumns(tbl) ==
    {coded_name(all_food_items[i]) : i \in 1..Len(all_food_items)} \cap Columns(tbl)

SameCoded(tbl, r1, r2) == \A c \in CodedColumns(tbl) : tbl[r1][c] = tbl[r2][c]

\* C12: two records that agree on every coded frequency get the same DDS,
\* whatever their raw answers, BMI and Residence are.
C12_DependsOnCodedOnly ==
    Scored => \A r1 \in Rows(data) : \A r2 \in Rows(data) :
                  SameCoded(data, r1, r2) => data[r1]["DDS"] = data[r2]["DDS"]

\* two scored records with the same coded frequencies and the same DDS >= 1
\* whose raw Rice answers ("1x" and the number 3) and BMI cells differ
C12_Witness ==
    /\ Scored
    /\ \E r1 \in Rows(data) : \E r2 \in Rows(data) :
           /\ "Rice_coded" \in Columns(data)
           /\ SameCoded(data, r1, r2)
           /\ data[r1]["Rice"] = Str(<<"1","x">>)
           /\ data[r2]["Rice"] = Whole(3)
           /\ data[r1]["BMI"] # data[r2]["BMI"]
           /\ data[r1]["DDS"] = data[r2]["DDS"]
           /\ data[r1]["DDS"].n >= 100

----------------------------------------------------------------------------
(* Frame of the DDS pass *)

\* every cell the table had before the step is the same after it
SameCells(old, new) ==
    /\ Len(new) = Len(old)
    /\ \A r \in Rows(old) : \A c \in Columns(old) : new[r][c] = old[r][c]

\* C13: the scoring pass changes no coded value and no other existing column
\* of any record; it adds the DDS column and nothing else, and leaves the
\* loaded table, the export and the summary alone.
C13_ScoringFrame ==
    [][(pc = "dds" /\ pc' = "export") =>
           /\ SameCells(data, data')
           /\ Columns(data') = Columns(data) \cup {"DDS"}
           /\ "DDS" \notin Columns(data)
           /\ UNCHANGED <<df, cleaned_csv, summary>>]_vars

\* a table just scored that holds a missing and a non-missing coded frequency
C13_Witness ==
    /\ pc = "export"
    /\ Scored
    /\ \E r \in Rows(data) : \E c1 \in CodedColumns(data) : \E c2 \in CodedColumns(data) :
           isna(data[r][c1]) /\ notna(data[r][c2])

----------------------------------------------------------------------------
(* Properties of the text normalizer *)

\* the normalizing pass is over
Normalized == pc # "standardize"

\* the listed text columns of the input
ListedColumns == {text_columns[i] : i \in 1..Len(text_columns)} \cap Columns(df)

\* C14: in each listed column of the input, every non-missing value is replaced
\* by its trimmed, title-cased form and every missing value stays a missing
\* marker.
C14_TrimmedTitled ==
    Normalized => \A r \in Rows(df) : \A c \in ListedColumns :
        IF isna(df[r][c])
        THEN isna(data[r][c])
        ELSE data[r][c] = Str(title(strip(astype_str(df[r][c]))))


\* C15: the normalizing pass keeps every cell of every column outside its
\* list, keeps the set of columns (an absent listed column is not created)
\* and the records, and never aborts the run.
C15_NormalizerFrame ==
    [][pc = "standardize" =>
           /\ pc' = "code"
           /\ Len(data') = Len(data)
           /\ Columns(data') = Columns(data)
           /\ \A r \in Rows(data) : \A c \in Columns(data) \ ListedColumns :
                  data'[r][c] = data[r][c]
           /\ df' = df]_vars

\* after the pass: a listed column was rewritten, another listed column is
\* still absent, and an unlisted cell that the normalizer would have changed
\* is as it was loaded
C15_Witness ==
    /\ pc = "code"
    /\ "Residence" \in Columns(data)
    /\ data[1]["Residence"] # df[1]["Residence"]
    /\ "Religion" \notin Columns(data)
    /\ "Rice" \in Columns(data)
    /\ data[1]["Rice"] = df[1]["Rice"]
    /\ standardize_cell(df[1]["Rice"]) # df[1]["Rice"]


\* C16: normalizing again a listed column that the pass has normalized changes
\* no value: text stays the same text and a missing marker stays missing.
C16_Idempotent ==
    Normalized => \A r \in Rows(data) : \A c \in ListedColumns :
        standardize_cell(data[r][c]) = data[r][c]

\* a normalized column whose raw cell the pass changed into text of several
\* words, one of them starting with a digit
C16_Witness ==
    /\ Normalized
    /\ "Residence" \in Columns(data)
    /\ data[1]["Residence"] = Str(<<"P","o","r","t","-","H","a","r","c","o","u","r","t"," ","2","N","d">>)
    /\ df[1]["Residence"] # data[1]["Residence"]

----------------------------------------------------------------------------
(* Properties of the export *)

Exported == cleaned_csv # <<>>

\* C17: the export has the columns of the input, one coded column for each
\* catalog item of the input, BMI_final, BMI_category and DDS, and no other
\* column; it has the records of the input in their order (each record still
\* carries the raw cells of its unlisted columns).
C17_ExportShape ==
    Exported =>
        /\ Columns(cleaned_csv) =
               Columns(df) \cup {coded_name(c) : c \in FoodColumns}
                           \cup {"BMI_final", "BMI_category", "DDS"}
        /\ Len(cleaned_csv) = Len(df)
        /\ \A r \in Rows(df) : \A c \in Columns(df) \ ListedColumns :
               cleaned_csv[r][c] = df[r][c]

\* an export of two different records, with one catalog item in the input
\* and another one absent from it
C17_Witness ==
    /\ Exported
    /\ Len(cleaned_csv) = 2
    /\ "Rice_coded" \in Columns(cleaned_csv)
    /\ "Maize" \notin Columns(df)
    /\ "Maize_coded" \notin Columns(cleaned_csv)
    /\ cleaned_csv[1]["Rice"] # cleaned_csv[2]["Rice"]
    /\ cleaned_csv[1]["DDS"] # cleaned_csv[2]["DDS"]


\* C18: when the run has aborted because BMI or Residence is absent from the
\* input, no export has been written.
C18_NoExportOnAbort == pc = "aborted" => ~Exported

----------------------------------------------------------------------------
(* The food-group catalogs of the downstream scripts *)

\* food_groups of analysis_dietary_patterns.py
food_groups_patterns == <<
    [group |-> "Dairy",
     items |-> <<"Milk ", "Yoghurt", "Ice cream", "Dairy_Other">>],
    [group |-> "Tubers",
     items |-> <<"Yam", "Cocoyam", "Water yam", "Sweet Potatoe", "Irish Potatoes (Daily/1wk/2-3x/4-6x/Occasional/Never)", "Tubers_Other">>],
    [group |-> "Legumes",
     items |-> <<"Beans", "Pigeon pea", "Bambara nut", "Soybean products", "Breadfruit (Daily/1wk/2-3x/4-6x/Occasional/Never)", "Groundnut", "African yam bean", "Legumes_Other">>],
    [group |-> "Cereals",
     items |-> <<"Rice", "Maize", "Millet", "Guinea corn", "Wheat", "Oats", "Cereals_Other">>],
    [group |-> "Meats",
     items |-> <<"Beef", "Goat meat", "Chicken", "Turkey", "Egg", "Fish", "Pork meat", "Snail", "Kpomo">>],
    [group |-> "Vegetables",
     items |-> <<"Tomatoes", "Ugu", "Scent leaf", "Water leaf", "Green", "Bitter leaf ", "Carrot", "Cabbage", "Cucumber", "Garden", "Okro", "Pumpkin", "Veg_Other">>],
    [group |-> "Fruits",
     items |-> <<"Apple", "Orange", "Grapes", "Banana", "Soursop", "Avocado", "African pear", "Forest pear", "Watermelon", "Pineapple", "Agbalumo", "Pawpaw", "Mango", "Guava", "Cashew", "Fruit_Other">>],
    [group |-> "Spices",
     items |-> <<"Garlic ", "Rosemary", "Thyme", "Turmeric", "Nutmeg", "Okpei", "Ogiri", "Spice_Other">>],
    [group |-> "Drinks",
     items |-> <<"Water", "Soft drinks", "Alcoholic beverages", "Wines", "Palm wine", "Beer", "Drink_Other">>],
    [group |-> "Snacks",
     items |-> <<"Biscuits ", "Chin-chin", "Buns", "Doughnut", "Peanut", "Plantain", "Chocolate", "Eggrolls", "Snack_Other">>]
>>

\* food_groups of advanced_analysis.py
food_groups_advanced == <<
    [group |-> "Dairy",
     items |-> <<"Milk ", "Yoghurt", "Ice cream", "Dairy_Other">>],
    [group |-> "Tubers",
     items |-> <<"Yam", "Cocoyam", "Water yam", "Sweet Potatoe", "Irish Potatoes (Daily/1wk/2-3x/4-6x/Occasional/Never)", "Tubers_Other">>],
    [group |-> "Legumes",
     items |-> <<"Beans", "Pigeon pea", "Bambara nut", "Soybean products", "Breadfruit (Daily/1wk/2-3x/4-6x/Occasional/Never)", "Groundnut", "African yam bean", "Legumes_Other">>],
    [group |-> "Cereals",
     items |-> <<"Rice", "Maize", "Millet", "Guinea corn", "Wheat", "Oats", "Cereals_Other">>],
    [group |-> "Meats",
     items |-> <<"Beef", "Goat meat", "Chicken", "Turkey", "Egg", "Fish", "Pork meat", "Snail", "Kpomo">>],
    [group |-> "Vegetables",
     items |-> <<"Tomatoes", "Ugu", "Scent leaf", "Water leaf", "Green", "Bitter leaf ", "Carrot", "Cabbage", "Cucumber", "Garden", "Okro", "Pumpkin", "Veg_Other">>],
    [group |-> "Fruits",
     items |-> <<"Apple", "Orange", "Grapes", "Banana", "Soursop", "Avocado", "African pear", "Forest pear", "Watermelon", "Pineapple", "Agbalumo", "Pawpaw", "Mango", "Guava", "Cashew", "Fruit_Other">>],
    [group |-> "Snacks",
     items |-> <<"Biscuits ", "Chin-chin", "Buns", "Doughnut", "Peanut", "Plantain", "Chocolate", "Eggrolls", "Snack_Other">>]
>>

\* a catalog as a set of (group name, set of member items)
Catalog(groups) == {<<groups[g].group, Elems(groups[g].items)>> : g \in 1..Len(groups)}

\* C19: whenever there is an export for the downstream scripts to score, the
\* catalogs of analysis_dietary_patterns and of advanced_analysis have the
\* group names and the member items per group of the preparation stage.
C19_SameCatalog ==
    Exported =>
        /\ Catalog(food_groups_patterns) = Catalog(food_groups)
        /\ Catalog(food_groups_advanced) = Catalog(food_groups)

----------------------------------------------------------------------------
(* run_full_analysis.py: main() runs the scripts one after the other *)

scripts == <<
    [name |-> "data_preparation.py", description |-> "Data Preparation"],
    [name |-> "analysis_sociodemographic.py", description |-> "Section A: Socio-demographic Analysis"],
    [name |-> "analysis_anthropometry.py", description |-> "Section B: Anthropometric Analysis"],
    [name |-> "analysis_dietary_patterns.py", description |-> "Section C: Dietary Assessment (FFQ & DDS)"],
    [name |-> "analysis_diet_factors.py", description |-> "Section D: Factors Affecting Diet"],
    [name |-> "analysis_dietary_habits.py", description |-> "Section E: Dietary Habits"],
    [name |-> "advanced_analysis.py", description |-> "BONUS: Advanced Analysis (Logistic Regression & Clustering)"],
    [name |-> "generate_report.py", description |-> "Report Generation"]
>>

\* the values os.system can return: 0, or the wait status of exit(1)
ExitCodes == {0, 256}

\* what run_script returns for an exit code
run_script(exit_code) == exit_code = 0

\* a loop that runs a failed script again instead of going on
RunScript_retry ==
    /\ script_index \in 1..Len(scripts)
    /\ \E exit_code \in ExitCodes :
           /\ results' = (scripts[script_index].description :>
                               (IF run_script(exit_code) THEN "Success" ELSE "Failed"))
                          @@ results
           /\ script_index' = IF run_script(exit_code) \/ Len(executed) >= Len(scripts)
                              THEN script_index + 1 ELSE script_index
           /\ executed' = Append(executed, [name |-> scripts[script_index].name,
                                            exit_code |-> exit_code])
    /\ UNCHANGED <<banner>>
    /\ UNCHANGED <<prep, sections>>

\* One iteration of main's loop on a script that exists: os.system runs it
\* and the result is recorded; the loop goes on to the next script.
RunScript ==
    /\ script_index \in 1..Len(scripts)
    /\ \E exit_code \in ExitCodes :
           /\ results' = (scripts[script_index].description :>
                               (IF run_script(exit_code) THEN "Success" ELSE "Failed"))
                          @@ results
           /\ executed' = Append(executed, [name |-> scripts[script_index].name,
                                            exit_code |-> exit_code])
    /\ script_index' = script_index + 1
    /\ UNCHANGED <<banner>>
    /\ UNCHANGED <<prep, sections>>

\* One iteration on a script whose file does not exist: nothing is run.
ScriptNotFound ==
    /\ script_index \in 1..Len(scripts)
    /\ results' = (scripts[script_index].description :> "Not Found") @@ results
    /\ script_index' = script_index + 1
    /\ UNCHANGED <<executed, banner>>
    /\ UNCHANGED <<prep, sections>>

\* a test that is content with one successful script
any_success == \E d \in DOMAIN results : results[d] = "Success"

all_success == \A d \in DOMAIN results : results[d] = "Success"

\* After the loop: the summary and one of the two closing banners.
PrintSummary ==
    /\ script_index = Len(scripts) + 1
    /\ banner = "none"
    /\ banner' = IF all_success THEN "ALL ANALYSES COMPLETED SUCCESSFULLY!"
                 ELSE "SOME ANALYSES FAILED - PLEASE REVIEW ERRORS ABOVE"
    /\ UNCHANGED <<script_index, results, executed>>
    /\ UNCHANGED <<prep, sections>>

NextRun == RunScript \/ ScriptNotFound \/ PrintSummary

\* main() starts before any script has run: no export, no summary yet
InitRun ==
    /\ pc = "standardize"
    /\ df = << ("Age Group " :> Str(<<"1","3","-","1","5">>)) @@ ("BMI" :> Num(2210))
                  @@ ("Residence" :> Str(<<"u","r","b","a","n">>))
                  @@ ("Rice" :> Str(<<"D","a","i","l","y">>)) >>
    /\ data = df
    /\ cleaned_csv = <<>>
    /\ summary = NoSummary
    /\ NotStarted

SpecRun == InitRun /\ [][NextRun]_vars

\* the names of the scripts executed so far, in order
ExecutedNames == [i \in 1..Len(executed) |-> executed[i].name]

\* C20: once a script has failed or was not found, none of the scripts after
\* it in the list is run.
C20_FailFast ==
    \A k \in 1..Len(scripts) :
        (/\ scripts[k].description \in DOMAIN results
         /\ results[scripts[k].description] # "Success")
        => \A j \in (k + 1)..Len(scripts) : scripts[j].name \notin Elems(ExecutedNames)

----------------------------------------------------------------------------
(* Records are processed independently *)

\* the four passes on a table
Pipeline(tbl) ==
    dds_column(bmi_categories(code_frequencies(standardize_text(tbl, 1), 1)))

DerivedColumns(tbl) == CodedColumns(tbl) \cup {"BMI_final", "BMI_category", "DDS"}

\* C21: the coded frequencies, BMI_final, BMI_category and DDS of a record
\* are what the passes give for that record alone, whatever the other records
\* hold; and with BMI and Residence in the input the run never aborts,
\* whatever the cells hold.
C21_PerRecord ==
    /\ Scored => \A r \in Rows(df) : \E alone \in {Pipeline(<<df[r]>>)[1]} :
                     \A c \in DerivedColumns(data) : data[r][c] = alone[c]
    /\ {"BMI", "Residence"} \subseteq Columns(df) => pc # "aborted"

\* a finished run on two records: the first has an unparseable BMI and an
\* unmappable Rice answer, the second is derived as if it were alone
C21_Witness ==
    /\ pc = "done"
    /\ Len(df) = 2
    /\ {"BMI", "Rice"} \subseteq Columns(df)
    /\ df[1]["BMI"] = Str(<<"a","b","c">>)
    /\ df[1]["Rice"] = Str(<<"o","f","t","e","n">>)
    /\ isna(data[1]["Rice_coded"])
    /\ data[1]["BMI_category"] = Unknown
    /\ data[2]["Rice_coded"] = Whole(3)
    /\ data[2]["BMI_category"] = Underweight
    /\ data[2]["DDS"] = Whole(1)

----------------------------------------------------------------------------
(* Order of the passes *)

PassOrder == <<"standardize", "code", "bmi", "dds", "export", "summary", "done">>

\* C22: every step that does not abort moves the script to the next pass of
\* the fixed order, so no pass runs twice; the DDS column appears only in
\* the DDS pass, when every food item of the input is coded and BMI_category
\* exists; the export is written only in the export pass, once, when
\* BMI_category and DDS exist for every record.
C22_PassOrder ==
    [][/\ pc' # "aborted" =>
              \E i \in 1..(Len(PassOrder) - 1) : pc = PassOrder[i] /\ pc' = PassOrder[i + 1]
       /\ ("DDS" \in Columns(data') /\ ~Scored) =>
              /\ pc = "dds"
              /\ CodedColumns(data) = {coded_name(c) : c \in FoodColumns}
              /\ Categorized
       /\ cleaned_csv' # cleaned_csv =>
              /\ pc = "export"
              /\ ~Exported
              /\ \A r \in Rows(df) :
                     {"BMI_category", "DDS"} \subseteq DOMAIN cleaned_csv'[r]
       /\ data' # data => pc \in {"standardize", "code", "bmi", "dds"}]_vars

\* a finished run whose export carries a coded item, a category and a score
C22_Witness ==
    /\ pc = "done"
    /\ Exported
    /\ "Rice_coded" \in Columns(cleaned_csv)
    /\ cleaned_csv[1]["Rice_coded"] = Whole(6)
    /\ cleaned_csv[1]["BMI_category"] = Obese
    /\ cleaned_csv[1]["DDS"] = Whole(1)

----------------------------------------------------------------------------
(* Frame of the frequency coder *)

\* C23: the coding pass adds exactly one column '<item>_coded' for every
\* catalog item whose column is in the input and none for an absent item,
\* keeps every cell the table had (the raw answers among them) and goes on to
\* the next pass without an error.
C23_CoderFrame ==
    [][pc = "code" =>
           /\ pc' = "bmi"
           /\ Columns(data') = Columns(data) \cup {coded_name(c) : c \in FoodColumns}
           /\ \A c \in FoodColumns : coded_name(c) \notin Columns(data)
           /\ SameCells(data, data')]_vars

\* after the coding pass of a table that has Rice and lacks Maize
C23_Witness ==
    /\ pc = "bmi"
    /\ "Rice" \in Columns(df)
    /\ "Maize" \notin Columns(df)
    /\ "Rice_coded" \in Columns(data)
    /\ "Maize_coded" \notin Columns(data)
    /\ data[1]["Rice"] = Str(<<"1","x">>)
    /\ data[1]["Rice_coded"] = Whole(3)

----------------------------------------------------------------------------
(* The scripts that read cleaned_data.csv *)

\* DataFrame.to_csv: the text of a cell (a missing value is the empty field)
csv_field(c) ==
    IF c.t = "nan" THEN <<>> ELSE astype_str(c)

\* the fields pandas.read_csv reads as missing by default
na_values ==
    {<<>>,
     <<"#","N","/","A">>,
     <<"#","N","/","A"," ","N","/","A">>,
     <<"#","N","A">>,
     <<"-","1",".","#","I","N","D">>,
     <<"-","1",".","#","Q","N","A","N">>,
     <<"-","N","a","N">>,
     <<"-","n","a","n">>,
     <<"1",".","#","I","N","D">>,
     <<"1",".","#","Q","N","A","N">>,
     <<"<","N","A",">">>,
     <<"N","/","A">>,
     <<"N","A">>,
     <<"N","U","L","L">>,
     <<"N","a","N">>,
     <<"N","o","n","e">>,
     <<"n","/","a">>,
     <<"n","a","n">>,
     <<"n","u","l","l">>}

\* pandas.read_csv on one field of a column that holds text
csv_text(field) == IF field \in na_values THEN NaN ELSE Str(field)

\* pandas.read_csv on one field of a column that holds only numbers
csv_number(field) ==
    IF field \in na_values THEN NaN
    ELSE IF field = <<"i","n","f">> THEN Inf(1)
    ELSE IF field = <<"-","i","n","f">> THEN Inf(-1)
    ELSE to_numeric(Str(field))

\* pandas.read_csv of the file to_csv wrote for tbl: a column whose fields
\* are all numbers or missing is numeric, any other column is text.
read_csv(tbl) ==
    LET fields == SubSeq([r \in Rows(tbl) |-> [c \in DOMAIN tbl[r] |-> csv_field(tbl[r][c])]],
                         1, Len(tbl))
        numeric == {c \in Columns(tbl) :
                       \A r \in Rows(tbl) : \/ fields[r][c] \in na_values
                                            \/ notna(csv_number(fields[r][c]))}
    IN  SubSeq([r \in Rows(tbl) |->
                   [c \in DOMAIN tbl[r] |->
                       IF c \in numeric THEN csv_number(fields[r][c])
                       ELSE csv_text(fields[r][c])]],
               1, Len(tbl))

\* data[col] == label, as the set of the rows selected (NaN equals nothing)
Selected(tbl, col, label) == {r \in Rows(tbl) : tbl[r][col] = Str(label)}

\* Series.dropna() on a selection of rows
dropna(tbl, rows, col) == {r \in rows : notna(tbl[r][col])}

\* pd.crosstab(tbl[index], tbl[columns]): rows with a missing value in
\* either column are left out
crosstab(tbl, index, columns) ==
    LET kept == {r \in Rows(tbl) : notna(tbl[r][index]) /\ notna(tbl[r][columns])}
    IN  [p \in {tbl[r][index] : r \in kept} \X {tbl[r][columns] : r \in kept} |->
            Cardinality({r \in kept : tbl[r][index] = p[1] /\ tbl[r][columns] = p[2]})]

\* a drop that leaves the contingency table as it is
drop_nothing(contingency, label) == contingency

\* contingency.drop(label), when label is in the index
drop(contingency, label) ==
    [p \in {q \in DOMAIN contingency : q[1] # label} |-> contingency[p]]

urban == <<"u","r","b","a","n">>
rural == <<"r","u","r","a","l">>

\* a script can load the export and look up Residence in it
CanRead(script) ==
    /\ script \notin DOMAIN sections
    /\ cleaned_csv # <<>>
    /\ "Residence" \in Columns(cleaned_csv)

\* a script that saves its working table over the export when it is done
Record_write_back(script, computed) ==
    /\ sections' = (script :> computed) @@ sections
    /\ cleaned_csv' = IF "data" \in DOMAIN computed THEN computed.data ELSE cleaned_csv
    /\ UNCHANGED <<pc, df, data, summary, runner>>

Record(script, computed) ==
    /\ sections' = (script :> computed) @@ sections
    /\ UNCHANGED <<prep, runner>>

\* analysis_sociodemographic.py
Sociodemographic(loaded) ==
    /\ CanRead("analysis_sociodemographic.py")
    /\ Record("analysis_sociodemographic.py",
                  [data |-> loaded,
                   contingency |-> crosstab(loaded, "Age Group ", "Residence")])

\* analysis_anthropometry.py
Anthropometry(loaded) ==
    /\ CanRead("analysis_anthropometry.py")
    /\ Record("analysis_anthropometry.py",
                  [data |-> loaded,
                   urban_bmi |-> dropna(loaded, Selected(loaded, "Residence", urban), "BMI_final"),
                   rural_bmi |-> dropna(loaded, Selected(loaded, "Residence", rural), "BMI_final"),
                   contingency |-> drop(crosstab(loaded, "BMI_category", "Residence"), Unknown)])

\* analysis_dietary_patterns.py
DietaryPatterns(loaded) ==
    /\ CanRead("analysis_dietary_patterns.py")
    /\ Record("analysis_dietary_patterns.py",
                  [data |-> loaded,
                   urban_dds |-> dropna(loaded, Selected(loaded, "Residence", urban), "DDS"),
                   rural_dds |-> dropna(loaded, Selected(loaded, "Residence", rural), "DDS")])

\* analysis_diet_factors.py
DietFactors(loaded) ==
    /\ CanRead("analysis_diet_factors.py")
    /\ Record("analysis_diet_factors.py",
                  [data |-> loaded,
                   urban_n |-> Cardinality(Selected(loaded, "Residence", urban)),
                   rural_n |-> Cardinality(Selected(loaded, "Residence", rural))])

cols_to_fix == <<"Do you skip meals", "Prefer snacks over food? (Yes/No)">>

\* the fail-safe loop over cols_to_fix[i..]
RECURSIVE fix_columns(_, _)
fix_columns(tbl, i) ==
    IF i > Len(cols_to_fix) THEN tbl
    ELSE IF cols_to_fix[i] \in Columns(tbl)
    THEN fix_columns(SetColumn(tbl, cols_to_fix[i],
                               [r \in Rows(tbl) |-> standardize_cell(tbl[r][cols_to_fix[i]])]),
                     i + 1)
    ELSE fix_columns(tbl, i + 1)

\* analysis_dietary_habits.py
DietaryHabits(loaded) ==
    /\ CanRead("analysis_dietary_habits.py")
    /\ \E fixed \in {fix_columns(loaded, 1)} :
           Record("analysis_dietary_habits.py",
                  [data |-> fixed,
                   urban_n |-> Cardinality(Selected(fixed, "Residence", urban)),
                   rural_n |-> Cardinality(Selected(fixed, "Residence", rural))])

\* (series == label).astype(int)
indicator(tbl, col, label) ==
    [r \in Rows(tbl) |-> IF tbl[r][col] = Str(label) THEN Whole(1) ELSE Whole(0)]

\* advanced_analysis.py
AdvancedAnalysis(loaded) ==
    /\ CanRead("advanced_analysis.py")
    /\ \E coded \in {SetColumn(loaded, "Undernutrition",
                               indicator(loaded, "BMI_category", Underweight.s))} :
           Record("advanced_analysis.py",
                  [data |-> SetColumn(coded, "Residence_coded",
                                      indicator(coded, "Residence", urban))])

\* generate_report.py
GenerateReport(loaded) ==
    /\ "generate_report.py" \notin DOMAIN sections
    /\ cleaned_csv # <<>>
    /\ Record("generate_report.py", [participants |-> Len(loaded)])

\* any script that has not run yet runs next: each starts with
\* pd.read_csv('cleaned_data.csv')
NextSections ==
    \E loaded \in {read_csv(cleaned_csv)} :
        \/ Sociodemographic(loaded)
        \/ Anthropometry(loaded)
        \/ DietaryPatterns(loaded)
        \/ DietFactors(loaded)
        \/ DietaryHabits(loaded)
        \/ AdvancedAnalysis(loaded)
        \/ GenerateReport(loaded)

\* the cells of the tables the sections are run on
SectionBMI == {Num(1790), Num(2210), Str(<<"a","b","c">>)}
SectionResidence == {Str(<<"u","r","b","a","n">>), Str(<<" ","R","U","R","A","L"," ">>), NaN}

\* data_preparation.py has run to its end on a table that has BMI and
\* Residence; no section has run yet
InitSections ==
    /\ \E n \in 1..MaxRows :
           df \in [1..n -> {("Age Group " :> Str(<<"1","3","-","1","5">>)) @@ ("BMI" :> bmi)
                               @@ ("Residence" :> res) @@ ("Rice" :> Str(<<"1","x">>)) :
                               bmi \in SectionBMI, res \in SectionResidence}]
    /\ \E prepared \in {Pipeline(df)} :
           /\ data = prepared
           /\ cleaned_csv = prepared
           /\ summary = make_summary(prepared)
    /\ pc = "done"
    /\ NotStarted

SpecSections == InitSections /\ [][NextSections]_vars

----------------------------------------------------------------------------
(* Properties of the scripts that read the export *)

\* C24: once cleaned_data.csv is written, no step of a section, of the report
\* script or of the runner changes it, in whatever order they run.
C24_ExportReadOnly == [][Exported => cleaned_csv' = cleaned_csv]_vars

\* all seven scripts that read the export have run, the
\* report script among them; the advanced analysis worked on its own copy
C24_Witness ==
    /\ Exported
    /\ DOMAIN sections = {scripts[k].name : k \in 2..Len(scripts)}
    /\ sections["advanced_analysis.py"].data # cleaned_csv
    /\ "Undernutrition" \in Columns(sections["advanced_analysis.py"].data)
    /\ "Undernutrition" \notin Columns(cleaned_csv)

----------------------------------------------------------------------------
(* Properties of run_full_analysis.py *)

\* the scripts in the order of the run
Sequence ==
    <<"data_preparation.py", "analysis_sociodemographic.py", "analysis_anthropometry.py",
      "analysis_dietary_patterns.py", "analysis_diet_factors.py",
      "analysis_dietary_habits.py", "advanced_analysis.py", "generate_report.py">>

\* the scripts attempted so far
Attempted == 1..(script_index - 1)

\* the positions in Sequence of the scripts executed so far, in order
RECURSIVE Positions(_)
Positions(names) ==
    IF names = <<>> THEN <<>>
    ELSE <<CHOOSE k \in 1..Len(Sequence) : Sequence[k] = Head(names)>> \o Positions(Tail(names))

\* C25: the scripts are attempted one at a time in the order data
\* preparation, sections A to E, advanced analysis, report generation: the
\* attempted scripts are always the first ones of that order, so
\* data_preparation is attempted first; the executed ones are those among
\* them that exist, in that order, and none is executed twice.
C25_InSequence ==
    /\ [k \in 1..Len(scripts) |-> scripts[k].name] = Sequence
    /\ script_index \in 1..(Len(scripts) + 1)
    /\ DOMAIN results = {scripts[k].description : k \in Attempted}
    /\ Elems(ExecutedNames) =
           {scripts[k].name : k \in {j \in Attempted : results[scripts[j].description] # "Not Found"}}
    /\ \A i \in 1..Len(executed) : \A j \in 1..Len(executed) :
           i < j => Positions(ExecutedNames)[i] < Positions(ExecutedNames)[j]

\* the loop is over: one script was missing, the seven others were executed, one of them failed
C25_Witness ==
    /\ script_index = Len(scripts) + 1
    /\ Len(executed) = 7
    /\ results["Section B: Anthropometric Analysis"] = "Not Found"
    /\ results["Section E: Dietary Habits"] = "Failed"
    /\ executed[1].name = "data_preparation.py"
    /\ executed[7].name = "generate_report.py"

----------------------------------------------------------------------------
(* The Residence labels *)

\* the raw cell is a spelling of the label: the label in any case, with or
\* without surrounding white space
Spelled(c, label) == c.t = "str" /\ all_lower(strip(c.s)) = label

\* C26: the records whose raw Residence is a spelling of urban (of rural) are
\* the records the 'urban' (the 'rural') filter selects, in the summary of
\* the preparation stage and in the DDS comparison of the dietary patterns
\* section.
C26_LabelsSelected ==
    LET urbans == {r \in Rows(df) : Spelled(df[r]["Residence"], urban)}
        rurals == {r \in Rows(df) : Spelled(df[r]["Residence"], rural)}
    IN  /\ summary.Urban = Cardinality(urbans)
        /\ summary.Rural = Cardinality(rurals)
        /\ "analysis_dietary_patterns.py" \in DOMAIN sections =>
               /\ sections["analysis_dietary_patterns.py"].urban_dds = urbans
               /\ sections["analysis_dietary_patterns.py"].rural_dds = rurals


\* the exit codes of the runs of a script
ExitsOf(name) == {executed[i].exit_code : i \in {j \in 1..Len(executed) : executed[j].name = name}}

\* C27: when main has printed its closing banner, results has one entry for
\* each listed script and no other: Success for a script that ran and exited
\* with 0, Failed for one that ran and exited with another code, Not Found
\* for one that was not run; the banner is the success banner exactly when
\* every entry is Success, and the failure banner otherwise.
C27_ResultsAndBanner ==
    banner # "none" =>
        /\ DOMAIN results = {scripts[k].description : k \in 1..Len(scripts)}
        /\ \A k \in 1..Len(scripts) :
               LET status == results[scripts[k].description]
                   exits == ExitsOf(scripts[k].name)
               IN  /\ status = "Success" <=> exits = {0}
                   /\ status = "Failed" <=> (exits # {} /\ 0 \notin exits)
                   /\ status = "Not Found" <=> exits = {}
        /\ IF \A k \in 1..Len(scripts) : results[scripts[k].description] = "Success"
           THEN banner = "ALL ANALYSES COMPLETED SUCCESSFULLY!"
           ELSE banner = "SOME ANALYSES FAILED - PLEASE REVIEW ERRORS ABOVE"

\* the failure banner after a run in which only the report script failed
C27_Witness ==
    /\ banner = "SOME ANALYSES FAILED - PLEASE REVIEW ERRORS ABOVE"
    /\ results["Report Generation"] = "Failed"
    /\ \A k \in 1..(Len(scripts) - 1) : results[scripts[k].description] = "Success"

----------------------------------------------------------------------------
(* The numeric fallback works cell by cell *)

\* C28: a cell whose text is a key of the mapping keeps the code of the
\* mapping, whatever the other cells of its column are (numbers and unmapped
\* text that send the column through the numeric fallback among them).
C28_FallbackPerCell ==
    CodingDone => \A col \in FoodColumns : \A r \in Rows(df) :
        (df[r][col].t = "str" /\ df[r][col].s \in DOMAIN frequency_mapping) =>
            data[r][coded_name(col)] = frequency_mapping[df[r][col].s]

\* a column in which '1x' keeps its code 3 next to a number that the
\* fallback filled in, and one in which 'Daily' keeps 6 next to a missing cell
C28_Witness ==
    /\ CodingDone
    /\ Len(df) = 2
    /\ {"Rice", "Maize"} \subseteq Columns(df)
    /\ df[1]["Rice"] = Str(<<"1","x">>)
    /\ df[2]["Rice"] = Whole(3)
    /\ data[1]["Rice_coded"] = Whole(3)
    /\ data[2]["Rice_coded"] = Whole(3)
    /\ df[1]["Maize"] = NaN
    /\ df[2]["Maize"] = Str(<<"D","a","i","l","y">>)
    /\ data[2]["Maize_coded"] = Whole(6)

----------------------------------------------------------------------------
(* Monotonicity of the DDS *)

\* the coded values a cell is changed to
CodedValues == {NaN, Whole(2), Whole(3)}

\* new is old raised (a missing value is below every number), or lowered
NotBelow(old, new) == isna(old) \/ (notna(new) /\ old.n <= new.n)
NotAbove(old, new) == isna(new) \/ (notna(old) /\ new.n <= old.n)

\* the DDS of the record with one coded cell changed
Rescored(row, c, v) == calculate_dds([row EXCEPT ![c] = v], food_groups)

\* C29: changing one coded frequency of a scored record to a higher value,
\* or from missing to a value, never gives a lower DDS than the record has;
\* changing it to a lower value, or to missing, never gives a higher one.
C29_Monotone ==
    Scored => \A r \in Rows(data) : \A c \in CodedColumns(data) : \A v \in CodedValues :
        \E rescored \in {Rescored(data[r], c, v)} :
            /\ NotBelow(data[r][c], v) => rescored * 100 >= data[r]["DDS"].n
            /\ NotAbove(data[r][c], v) => rescored * 100 <= data[r]["DDS"].n

\* a scored record whose DDS goes up when a missing code becomes 3 and goes
\* down when a code 3 becomes missing
C29_Witness ==
    /\ Scored
    /\ \E c \in CodedColumns(data) :
           /\ isna(data[1][c])
           /\ Rescored(data[1], c, Whole(3)) * 100 > data[1]["DDS"].n
    /\ \E c \in CodedColumns(data) :
           /\ data[1][c] = Whole(3)
           /\ Rescored(data[1], c, NaN) * 100 < data[1]["DDS"].n

----------------------------------------------------------------------------
(* Records without a usable BMI in the sections *)

\* C30: the contingency table of the BMI-category chi-square test has no
\* Unknown row: each of its cells counts the records of one other category
\* and one Residence; and the advanced analysis sets Undernutrition to 1 for
\* the records whose BMI_category is Underweight and to 0 for all others,
\* the Unknown ones among them.
C30_UnknownLeftOut ==
    /\ "analysis_anthropometry.py" \in DOMAIN sections =>
           LET contingency == sections["analysis_anthropometry.py"].contingency
           IN  \A p \in DOMAIN contingency :
                   /\ p[1] # Unknown
                   /\ contingency[p] =
                          Cardinality({r \in Rows(data) : /\ data[r]["BMI_category"] = p[1]
                                                         /\ data[r]["Residence"] = p[2]})
    /\ "advanced_analysis.py" \in DOMAIN sections =>
           \A r \in Rows(data) :
               LET flag == sections["advanced_analysis.py"].data[r]["Undernutrition"]
               IN  /\ flag \in {Whole(0), Whole(1)}
                   /\ flag = Whole(1) <=> data[r]["BMI_category"] = Underweight

\* both scripts have run on two records with a Residence: one Unknown, left
\* out of the table and not undernourished, and one Underweight
C30_Witness ==
    /\ {"analysis_anthropometry.py", "advanced_analysis.py"} \subseteq DOMAIN sections
    /\ Len(data) = 2
    /\ data[1]["BMI_category"] = Unknown
    /\ notna(data[1]["Residence"])
    /\ data[2]["BMI_category"] = Underweight
    /\ notna(data[2]["Residence"])
    /\ sections["advanced_analysis.py"].data[1]["Undernutrition"] = Whole(0)
    /\ sections["advanced_analysis.py"].data[2]["Undernutrition"] = Whole(1)
    /\ DOMAIN sections["analysis_anthropometry.py"].contingency # {}

====
